---- MODULE Spec2Model ----
(***************************************************************************)
(* Model of leads_agences.py: the Sellsy ingestion pipeline of the         *)
(* "100% Immo" dashboard.  A script run obtains a bearer token             *)
(* (get_access_token, cached 3500 s), pages through the opportunities      *)
(* endpoint (fetch_all_opportunities, cached 900 s), normalizes the        *)
(* records (normalize_steps) and derives a postal code and a department    *)
(* (extract_postal_code, postal_to_departement).                           *)
(*                                                                         *)
(* Texts are sequences of atomic lexemes (one-character strings for lead   *)
(* names, whole words for labels); a missing value is the empty option.    *)
(***************************************************************************)
EXTENDS Integers, Sequences, FiniteSets, TLC

VARIABLES
    now,          \* wall clock, seconds
    tokenCache,   \* st.cache_data store of get_access_token: set of entries
    tokenLock,    \* compute lock of that store: set of callers holding it
    cpc,          \* position of each caller inside get_access_token
    cret,         \* value get_access_token returned to each caller
    authCalls,    \* upstream auth requests issued so far
    inflight,     \* per caller: the number of its auth request in flight, or 0
    dataCache,    \* st.cache_data store of fetch_all_opportunities
    pc,           \* position of the script run
    token,        \* local of fetch_all_opportunities
    offset,       \* local of fetch_all_opportunities
    all_opps,     \* local of fetch_all_opportunities
    requests,     \* offsets of the list requests issued by the current call
    pages,        \* pagination.count of each page the current call received
    last,         \* the last page received: its count and total, the offset after it
    steady,       \* every page received so far reported the same total
    df_raw,       \* module-level df_raw: <<>> unassigned, <<frame>> assigned
    srvTotal,     \* number of opportunities the CRM holds
    runs,         \* script runs started so far
    df,           \* module-level df: <<>> unassigned, <<frame>> assigned
    name_arg,     \* argument of a call of extract_postal_code
    cp_arg,       \* argument of a call of postal_to_departement
    cp_out        \* outcome of that call: <<>> pending, <<outcome>>

fetchVars == <<dataCache, pc, token, offset, all_opps, requests, pages,
               last, steady, df_raw, srvTotal, runs>>
tokenVars == <<tokenCache, tokenLock, cpc, cret, authCalls, inflight>>
geoVars == <<name_arg, cp_arg, cp_out>>

----------------------------------------------------------------------------
(* Bounds of the model *)
MaxPages == 3          \* the CRM holds at most MaxPages * limit records
MaxRuns == 2           \* script runs per behaviour
MaxCallers == 2        \* concurrent callers of get_access_token
MaxAuth == 3           \* upstream auth requests per behaviour
MaxWindows == 2        \* the clock runs to MaxWindows * TOKEN_TTL seconds
MaxRecords == 2        \* raw records handed to the assembly
MaxNameLen == 6        \* characters of a lead name before its tail
MaxCpLen == 3          \* characters of an argument of postal_to_departement
MaxPad == 1            \* whitespace lexemes on each side of a step label

(* Program constants *)
TOKEN_TTL == 3500
DATA_TTL == 900
limit == 100

----------------------------------------------------------------------------
(* Generic helpers *)
Min(a, b) == IF a < b THEN a ELSE b
Max(a, b) == IF a < b THEN b ELSE a
Ceil(a, b) == (a + b - 1) \div b
Range(s) == {s[i] : i \in 1..Len(s)}

RECURSIVE Sum(_, _)
Sum(ns, n) == IF n = 0 THEN 0 ELSE ns[n] + Sum(ns, n - 1)

----------------------------------------------------------------------------
(* st.cache_data(ttl=...): an entry written at time t is served while      *)
(* now < t + ttl; a failed computation writes nothing.                     *)
CacheEntry(v, ttl) == [value |-> v, expires |-> now + ttl]
\* Faulty variant: an entry is still served at the instant it expires.
CacheLive_inclusive(cache) == {e \in cache : now <= e.expires}
CacheLive(cache) == {e \in cache : now < e.expires}
CacheHit(cache) == CacheLive(cache) # {}
CacheValue(cache) == (CHOOSE e \in CacheLive(cache) : TRUE).value

----------------------------------------------------------------------------
(* Python values held in records and frame cells *)
Str(t) == [type |-> "str", s |-> t]
None == [type |-> "NoneType", s |-> <<>>]
NaN == [type |-> "float", s |-> <<>>]
PyInt(n) == [type |-> "int", s |-> <<>>, n |-> n]
Dict(d) == [type |-> "dict", s |-> <<>>, d |-> d]

\* isinstance(v, str)
IsStr(v) == v.type = "str"
\* pd.isna(v) for a scalar cell
IsNa(v) == v.type \in {"NoneType", "float"}

\* The cell of a row under a column: NaN where the record had no such key.
Cell(row, c) == IF c \in DOMAIN row THEN row[c] ELSE NaN

----------------------------------------------------------------------------
(* Environment *)
Callers == 1..MaxCallers
Main == 1              \* the script run's own thread

\* Totals the CRM may hold: page boundaries and their neighbours.
Totals == {t \in 0..(MaxPages * limit) :
             \E k \in 0..MaxPages : t \in {k * limit - 1, k * limit, k * limit + 1}}

\* Page sizes the CRM may choose to serve for one request.
PageSizes == {0, limit \div 2, limit}

\* Values of pagination.total the CRM may report while holding n records.
ReportedTotals(n) == {n, n \div 2, n + 1}

\* The raw opportunity with identifier i, as the list endpoint returns it.
SrvRecord(i) == [id |-> PyInt(i)]

\* Lists of the CRM's records are kept as sequences of runs: the run
\* [first |-> a, count |-> n] stands for SrvRecord(a), ..., SrvRecord(a + n - 1).
Run(a, n) == [first |-> a, count |-> n]
RECURSIVE NumRecords(_)
NumRecords(rl) ==
    IF rl = <<>> THEN 0 ELSE Head(rl).count + NumRecords(Tail(rl))

\* list.extend(data) on lists kept as runs: adjoining runs are merged, so
\* that a list has one representation.
Extend(rl, data) ==
    IF rl # <<>> /\ data # <<>>
       /\ rl[Len(rl)].first + rl[Len(rl)].count = data[1].first
    THEN SubSeq(rl, 1, Len(rl) - 1)
         \o <<Run(rl[Len(rl)].first, rl[Len(rl)].count + data[1].count)>>
         \o Tail(data)
    ELSE rl \o data

\* The "data" array of the page of at most k records starting after `off`,
\* of a CRM holding n.
SrvPage(n, off, k) ==
    LET size == Max(0, Min(k, n - off))
    IN  IF size = 0 THEN <<>> ELSE <<Run(off + 1, size)>>

\* Time passes by d seconds, up to the horizon.
Tick(d, horizon) ==
    /\ now + d <= horizon
    /\ now' = now + d
    /\ UNCHANGED <<df, geoVars, tokenVars, fetchVars>>

----------------------------------------------------------------------------
(* get_access_token, lines 49-58, behind st.cache_data(ttl=3500) *)

\* A caller invokes get_access_token(CLIENT_ID, CLIENT_SECRET).
Call(c) ==
    /\ cpc[c] \in {"idle", "returned", "raised"}
    /\ authCalls < MaxAuth
    /\ cpc' = [cpc EXCEPT ![c] = "lookup"]
    /\ UNCHANGED <<df, geoVars, now, tokenCache, tokenLock, cret, authCalls, inflight, fetchVars>>

\* The decorator reads the store: a live entry is returned with no request.
CacheRead(c) ==
    /\ cpc[c] = "lookup"
    /\ IF CacheHit(tokenCache)
         THEN /\ cret' = [cret EXCEPT ![c] = CacheValue(tokenCache)]
              /\ cpc' = [cpc EXCEPT ![c] = "returned"]
         ELSE /\ cpc' = [cpc EXCEPT ![c] = "wait"]
              /\ UNCHANGED cret
    /\ UNCHANGED <<df, geoVars, now, tokenCache, tokenLock, authCalls, inflight, fetchVars>>

\* Faulty variant: the body is computed without waiting for the compute lock.
AcquireLock_unguarded(c) ==
    /\ cpc[c] = "wait"
    /\ tokenLock' = tokenLock \cup {c}
    /\ cpc' = [cpc EXCEPT ![c] = "locked"]
    /\ UNCHANGED <<df, geoVars, now, tokenCache, cret, authCalls, inflight,
                   fetchVars>>

\* On a miss the decorator takes the store's compute lock.
AcquireLock(c) ==
    /\ cpc[c] = "wait"
    /\ tokenLock = {}
    /\ tokenLock' = {c}
    /\ cpc' = [cpc EXCEPT ![c] = "locked"]
    /\ UNCHANGED <<df, geoVars, now, tokenCache, cret, authCalls, inflight, fetchVars>>

\* Under the lock the store is read again; still a miss: the body runs and
\* requests.post(AUTH_URL, ...) is issued (line 56).
get_access_token(c) ==
    /\ cpc[c] = "locked"
    /\ IF CacheHit(tokenCache)
         THEN /\ cret' = [cret EXCEPT ![c] = CacheValue(tokenCache)]
              /\ cpc' = [cpc EXCEPT ![c] = "returned"]
              /\ tokenLock' = {}
              /\ UNCHANGED <<authCalls, inflight>>
         ELSE /\ authCalls' = authCalls + 1
              /\ inflight' = [inflight EXCEPT ![c] = authCalls + 1]
              /\ cpc' = [cpc EXCEPT ![c] = "request"]
              /\ UNCHANGED <<cret, tokenLock>>
    /\ UNCHANGED <<df, geoVars, now, tokenCache, fetchVars>>

\* The token the auth endpoint issues for the n-th request; 0 is None
\* (a JSON body without "access_token", line 58).
IssuedToken(n, kind) == IF kind = "ok" THEN n ELSE 0

\* The auth response arrives: raise_for_status (line 57) raises on an error
\* status and nothing is stored; otherwise the value is stored and returned.
AuthResponse(c, kind) ==
    /\ cpc[c] = "request"
    /\ IF kind = "error"
         THEN /\ cpc' = [cpc EXCEPT ![c] = "raised"]
              /\ UNCHANGED <<tokenCache, cret>>
         ELSE /\ tokenCache' =
                    {CacheEntry(IssuedToken(inflight[c], kind), TOKEN_TTL)}
              /\ cret' = [cret EXCEPT ![c] = IssuedToken(inflight[c], kind)]
              /\ cpc' = [cpc EXCEPT ![c] = "returned"]
    /\ inflight' = [inflight EXCEPT ![c] = 0]
    /\ tokenLock' = {}
    /\ UNCHANGED <<df, geoVars, now, authCalls, fetchVars>>

AuthKinds == {"ok", "no_token", "error"}

----------------------------------------------------------------------------
(* fetch_all_opportunities, lines 60-87, behind st.cache_data(ttl=900),    *)
(* and the module-level load of lines 344-345                              *)

\* pd.json_normalize(all_opps), line 86: one row per record; a nested
\* object k: {sk: v} becomes the column "k.sk"; the columns are the keys any
\* record carries.
IsDict(v) == v.type = "dict"
FlatKeys(r) ==
    UNION {IF IsDict(r[k]) THEN {k \o "." \o sk : sk \in DOMAIN r[k].d} ELSE {k} :
           k \in DOMAIN r}
FlatValue(r, c) ==
    IF c \in DOMAIN r /\ ~IsDict(r[c]) THEN r[c]
    ELSE LET k == CHOOSE k \in DOMAIN r :
                      IsDict(r[k]) /\ \E sk \in DOMAIN r[k].d : c = k \o "." \o sk
             sk == CHOOSE sk \in DOMAIN r[k].d : c = k \o "." \o sk
         IN  r[k].d[sk]
Flatten(r) == [c \in FlatKeys(r) |-> FlatValue(r, c)]
json_normalize(recs) ==
    [columns |-> UNION {FlatKeys(recs[i]) : i \in 1..Len(recs)},
     rows |-> [i \in 1..Len(recs) |-> Flatten(recs[i])]]
\* The same on a list kept as runs: the rows stay runs.
json_normalize_runs(rl) ==
    [columns |-> UNION {FlatKeys(SrvRecord(rl[i].first)) : i \in 1..Len(rl)},
     rows |-> rl]

NoPage == [count |-> 0, total |-> 0, offset |-> 0]

\* Line 345: the script calls fetch_all_opportunities; the decorator serves
\* a live entry, otherwise the body starts by asking for a token (line 62).
LoadData ==
    /\ pc = "start"
    /\ IF CacheHit(dataCache)
         THEN /\ df_raw' = <<CacheValue(dataCache)>>
              /\ pc' = "loaded"
              /\ UNCHANGED cpc
         ELSE /\ pc' = "get_token"
              /\ cpc' = [cpc EXCEPT ![Main] = "lookup"]
              /\ UNCHANGED df_raw
    /\ UNCHANGED <<df, geoVars, now, tokenCache, tokenLock, cret, authCalls, inflight, dataCache, token,
                   offset, all_opps, requests, pages, last, steady, srvTotal, runs>>

\* get_access_token returned: lines 62-67 set up the loop.
GotToken ==
    /\ pc = "get_token"
    /\ cpc[Main] = "returned"
    /\ cpc' = [cpc EXCEPT ![Main] = "idle"]
    /\ token' = cret[Main]
    /\ all_opps' = <<>>
    /\ offset' = 0
    /\ pc' = "page_request"
    /\ UNCHANGED <<df, geoVars, now, tokenCache, tokenLock, cret, authCalls, inflight, dataCache,
                   requests, pages, last, steady, df_raw, srvTotal, runs>>

\* get_access_token raised: the exception leaves fetch_all_opportunities
\* and ends the script run.
TokenFailed ==
    /\ pc = "get_token"
    /\ cpc[Main] = "raised"
    /\ cpc' = [cpc EXCEPT ![Main] = "idle"]
    /\ pc' = "failed"
    /\ UNCHANGED <<df, geoVars, now, tokenCache, tokenLock, cret, authCalls, inflight, dataCache, token,
                   offset, all_opps, requests, pages, last, steady, df_raw, srvTotal, runs>>

\* Lines 70-71: requests.get with limit, the current offset, direction asc.
PageRequest ==
    /\ pc = "page_request"
    /\ requests' = Append(requests, offset)
    /\ pc' = "page_wait"
    /\ UNCHANGED <<df, geoVars, now, tokenVars, dataCache, token, offset, all_opps, pages, last, steady,
                   df_raw, srvTotal, runs>>

\* Faulty variants of the exit test: a strict comparison; no test of count.
LoopExit_strict(count, off, total) == count = 0 \/ off > total
LoopExit_nocount(count, off, total) == off >= total

\* Line 83: the loop's exit test, after offset += count.
LoopExit(count, off, total) == count = 0 \/ off >= total

\* Lines 72-87 on a success status: the page is accumulated, the offset
\* advances by pagination.count; on exit the frame is built, stored by the
\* decorator and assigned to df_raw (line 345).
PageOk(data, total, count) ==
    LET opps == Extend(all_opps, data)
        off == offset + count
    IN  /\ pc = "page_wait"
        /\ pages' = Append(pages, count)
        /\ last' = [count |-> count, total |-> total, offset |-> off]
        /\ steady' = (steady /\ (pages = <<>> \/ total = last.total))
        /\ IF LoopExit(count, off, total)
             THEN /\ dataCache' = {CacheEntry(json_normalize_runs(opps), DATA_TTL)}
                  /\ df_raw' = <<json_normalize_runs(opps)>>
                  /\ pc' = "loaded"
                  /\ all_opps' = <<>>
                  /\ offset' = 0
             ELSE /\ all_opps' = opps
                  /\ offset' = off
                  /\ pc' = "page_request"
                  /\ UNCHANGED <<dataCache, df_raw>>
        /\ UNCHANGED <<df, geoVars, now, tokenVars, token, requests, srvTotal, runs>>

\* Faulty variant of the error path: the records accumulated so far are returned.
PageError_partial ==
    /\ pc = "page_wait"
    /\ pc' = "loaded"
    /\ dataCache' = {CacheEntry(json_normalize_runs(all_opps), DATA_TTL)}
    /\ df_raw' = <<json_normalize_runs(all_opps)>>
    /\ all_opps' = <<>>
    /\ offset' = 0
    /\ UNCHANGED <<df, geoVars, now, tokenVars, token, requests, pages, last,
                   steady, srvTotal, runs>>

\* Line 72 on a non-success status: raise_for_status raises, the locals
\* are dropped with the frame, nothing is stored, the script run ends.
PageError ==
    /\ pc = "page_wait"
    /\ pc' = "failed"
    /\ all_opps' = <<>>
    /\ offset' = 0
    /\ UNCHANGED <<df, geoVars, now, tokenVars, dataCache, token, requests, pages, last, steady, df_raw,
                   srvTotal, runs>>

\* The CRM answers the list request in flight with a page.
PageArrives ==
    \E k \in PageSizes, t \in ReportedTotals(srvTotal) :
        LET data == SrvPage(srvTotal, offset, k)
        IN  PageOk(data, t, NumRecords(data))

\* Streamlit reruns the script: a fresh module namespace.
Rerun ==
    /\ pc \in {"loaded", "failed"}
    /\ runs < MaxRuns
    /\ runs' = runs + 1
    /\ pc' = "start"
    /\ df_raw' = <<>>
    /\ requests' = <<>>
    /\ pages' = <<>>
    /\ last' = NoPage
    /\ steady' = TRUE
    /\ UNCHANGED <<df, geoVars, now, tokenVars, dataCache, token, offset, all_opps, srvTotal>>

----------------------------------------------------------------------------
(* Business mappings, lines 92-135 *)
STEP_GROUP_MAP ==
    <<"Relance Opp">> :> <<"Relance / Transfert">>
    @@ <<"Relance opp">> :> <<"Relance / Transfert">>
    @@ <<"Transfert Opp">> :> <<"Relance / Transfert">>
    @@ <<"Trnasfert Opp">> :> <<"Relance / Transfert">>
    @@ <<"Transfert opp">> :> <<"Relance / Transfert">>
    @@ <<"Devis Signé">> :> <<"Devis signé">>
    @@ <<"DEVIS SIGNÉ ANT ET ROMY">> :> <<"Devis signé">>
    @@ <<"Devis signé">> :> <<"Devis signé">>
    @@ <<"Négo/Envoi devis">> :> <<"Négociation">>
    @@ <<"Devis/Négociation">> :> <<"Négociation">>
    @@ <<"VISIO/RDV">> :> <<"VISIO / RDV">>
    @@ <<"RDV/Visio">> :> <<"VISIO / RDV">>
    @@ <<"Visio / RDV">> :> <<"VISIO / RDV">>
    @@ <<"Premier appel Tel">> :> <<"Premier contact">>
    @@ <<"Premier contact téléphonique">> :> <<"Premier contact">>
    @@ <<"Contact tél/Mail">> :> <<"Premier contact">>
    @@ <<"Refus Timing">> :> <<"Refus">>
    @@ <<"Refus Timing à rappeler">> :> <<"Refus">>
    @@ <<"Refus Argent">> :> <<"Refus">>
    @@ <<"Refus Offre">> :> <<"Refus">>

WORKFLOW_ORDER ==
    << <<"Piste">>, <<"Prise en charge lead">>, <<"NRP / Premier contact">>,
       <<"VISIO / RDV">>, <<"Envoi de devis">>, <<"Refus / Devis signé">> >>

(* Department table, lines 142-239 *)
DEPT_NAME_MAP ==
    <<"0", "1">> :> "Ain"
    @@ <<"0", "2">> :> "Aisne"
    @@ <<"0", "3">> :> "Allier"
    @@ <<"0", "4">> :> "Alpes-de-Haute-Provence"
    @@ <<"0", "5">> :> "Hautes-Alpes"
    @@ <<"0", "6">> :> "Alpes-Maritimes"
    @@ <<"0", "7">> :> "Ardèche"
    @@ <<"0", "8">> :> "Ardennes"
    @@ <<"0", "9">> :> "Ariège"
    @@ <<"1", "0">> :> "Aube"
    @@ <<"1", "1">> :> "Aude"
    @@ <<"1", "2">> :> "Aveyron"
    @@ <<"1", "3">> :> "Bouches-du-Rhône"
    @@ <<"1", "4">> :> "Calvados"
    @@ <<"1", "5">> :> "Cantal"
    @@ <<"1", "6">> :> "Charente"
    @@ <<"1", "7">> :> "Charente-Maritime"
    @@ <<"1", "8">> :> "Cher"
    @@ <<"1", "9">> :> "Corrèze"
    @@ <<"2", "1">> :> "Côte-d'Or"
    @@ <<"2", "2">> :> "Côtes-d'Armor"
    @@ <<"2", "3">> :> "Creuse"
    @@ <<"2", "4">> :> "Dordogne"
    @@ <<"2", "5">> :> "Doubs"
    @@ <<"2", "6">> :> "Drôme"
    @@ <<"2", "7">> :> "Eure"
    @@ <<"2", "8">> :> "Eure-et-Loir"
    @@ <<"2", "9">> :> "Finistère"
    @@ <<"3", "0">> :> "Gard"
    @@ <<"3", "1">> :> "Haute-Garonne"
    @@ <<"3", "2">> :> "Gers"
    @@ <<"3", "3">> :> "Gironde"
    @@ <<"3", "4">> :> "Hérault"
    @@ <<"3", "5">> :> "Ille-et-Vilaine"
    @@ <<"3", "6">> :> "Indre"
    @@ <<"3", "7">> :> "Indre-et-Loire"
    @@ <<"3", "8">> :> "Isère"
    @@ <<"3", "9">> :> "Jura"
    @@ <<"4", "0">> :> "Landes"
    @@ <<"4", "1">> :> "Loir-et-Cher"
    @@ <<"4", "2">> :> "Loire"
    @@ <<"4", "3">> :> "Haute-Loire"
    @@ <<"4", "4">> :> "Loire-Atlantique"
    @@ <<"4", "5">> :> "Loiret"
    @@ <<"4", "6">> :> "Lot"
    @@ <<"4", "7">> :> "Lot-et-Garonne"
    @@ <<"4", "8">> :> "Lozère"
    @@ <<"4", "9">> :> "Maine-et-Loire"
    @@ <<"5", "0">> :> "Manche"
    @@ <<"5", "1">> :> "Marne"
    @@ <<"5", "2">> :> "Haute-Marne"
    @@ <<"5", "3">> :> "Mayenne"
    @@ <<"5", "4">> :> "Meurthe-et-Moselle"
    @@ <<"5", "5">> :> "Meuse"
    @@ <<"5", "6">> :> "Morbihan"
    @@ <<"5", "7">> :> "Moselle"
    @@ <<"5", "8">> :> "Nièvre"
    @@ <<"5", "9">> :> "Nord"
    @@ <<"6", "0">> :> "Oise"
    @@ <<"6", "1">> :> "Orne"
    @@ <<"6", "2">> :> "Pas-de-Calais"
    @@ <<"6", "3">> :> "Puy-de-Dôme"
    @@ <<"6", "4">> :> "Pyrénées-Atlantiques"
    @@ <<"6", "5">> :> "Hautes-Pyrénées"
    @@ <<"6", "6">> :> "Pyrénées-Orientales"
    @@ <<"6", "7">> :> "Bas-Rhin"
    @@ <<"6", "8">> :> "Haut-Rhin"
    @@ <<"6", "9">> :> "Rhône"
    @@ <<"7", "0">> :> "Haute-Saône"
    @@ <<"7", "1">> :> "Saône-et-Loire"
    @@ <<"7", "2">> :> "Sarthe"
    @@ <<"7", "3">> :> "Savoie"
    @@ <<"7", "4">> :> "Haute-Savoie"
    @@ <<"7", "5">> :> "Paris"
    @@ <<"7", "6">> :> "Seine-Maritime"
    @@ <<"7", "7">> :> "Seine-et-Marne"
    @@ <<"7", "8">> :> "Yvelines"
    @@ <<"7", "9">> :> "Deux-Sèvres"
    @@ <<"8", "0">> :> "Somme"
    @@ <<"8", "1">> :> "Tarn"
    @@ <<"8", "2">> :> "Tarn-et-Garonne"
    @@ <<"8", "3">> :> "Var"
    @@ <<"8", "4">> :> "Vaucluse"
    @@ <<"8", "5">> :> "Vendée"
    @@ <<"8", "6">> :> "Vienne"
    @@ <<"8", "7">> :> "Haute-Vienne"
    @@ <<"8", "8">> :> "Vosges"
    @@ <<"8", "9">> :> "Yonne"
    @@ <<"9", "0">> :> "Territoire de Belfort"
    @@ <<"9", "1">> :> "Essonne"
    @@ <<"9", "2">> :> "Hauts-de-Seine"
    @@ <<"9", "3">> :> "Seine-Saint-Denis"
    @@ <<"9", "4">> :> "Val-de-Marne"
    @@ <<"9", "5">> :> "Val-d'Oise"
    @@ <<"2", "A">> :> "Corse-du-Sud"
    @@ <<"2", "B">> :> "Haute-Corse"

----------------------------------------------------------------------------
(* Characters as the re module classifies them for str patterns *)
AsciiDigits == {"0", "1", "2", "3", "4", "5", "6", "7", "8", "9"}
\* \d also matches decimal digits outside ASCII; "U+0663" stands for the
\* single character ARABIC-INDIC DIGIT THREE.
UnicodeDigits == {"U+0663"}
Letters ==
    {"a", "b", "c", "d", "e", "f", "g", "h", "i", "j", "k", "l", "m",
     "n", "o", "p", "q", "r", "s", "t", "u", "v", "w", "x", "y", "z",
     "A", "B", "C", "D", "E", "F", "G", "H", "I", "J", "K", "L", "M",
     "N", "O", "P", "Q", "R", "S", "T", "U", "V", "W", "X", "Y", "Z"}
IsDigit(ch) == ch \in AsciiDigits \cup UnicodeDigits
\* \w: letters, digits and the underscore
IsWord(ch) == IsDigit(ch) \/ ch \in Letters \/ ch = "_"

\* int(ch) for one character; defined on digits only.
DigitValue(ch) ==
    CASE ch = "0" -> 0 [] ch = "1" -> 1 [] ch = "2" -> 2 [] ch = "3" -> 3
      [] ch = "4" -> 4 [] ch = "5" -> 5 [] ch = "6" -> 6 [] ch = "7" -> 7
      [] ch = "8" -> 8 [] ch = "9" -> 9 [] ch = "U+0663" -> 3

\* \b before position p (1-based; p = Len + 1 is the end of the text).
IsWordAt(t, p) == p \in 1..Len(t) /\ IsWord(t[p])
WordBoundary(t, p) == IsWordAt(t, p - 1) # IsWordAt(t, p)

\* Faulty variant: \d{5} without the two \b.
PostalMatchAt_unbounded(t, i) ==
    /\ i + 4 <= Len(t)
    /\ \A j \in i..(i + 4) : IsDigit(t[j])

\* \b(\d{5})\b matches starting at position i.
PostalMatchAt(t, i) ==
    /\ i + 4 <= Len(t)
    /\ \A j \in i..(i + 4) : IsDigit(t[j])
    /\ WordBoundary(t, i)
    /\ WordBoundary(t, i + 5)

\* extract_postal_code, lines 255-259: re.search returns the leftmost match.
extract_postal_code(name) ==
    IF ~IsStr(name) THEN None
    ELSE LET t == name.s
             hits == {i \in 1..Len(t) : PostalMatchAt(t, i)}
         IN  IF hits = {} THEN None
             ELSE LET i == CHOOSE i \in hits : \A j \in hits : i <= j
                  IN  Str(SubSeq(t, i, i + 4))

\* The outcome of a call: a returned value or the exception it raised.
Returns(v) == [raised |-> "", value |-> v]
Raises(e) == [raised |-> e, value |-> None]

\* Faulty variant: no Corsican branch.
postal_to_departement_mainland(cp) ==
    IF ~IsStr(cp) \/ Len(cp.s) < 2 THEN Returns(None)
    ELSE Returns(Str(SubSeq(cp.s, 1, 2)))

\* postal_to_departement, lines 262-270.
postal_to_departement(cp) ==
    IF ~IsStr(cp) \/ Len(cp.s) < 2 THEN Returns(None)
    ELSE IF cp.s[1] = "2" /\ cp.s[2] = "0"
         THEN IF Len(cp.s) < 3 THEN Raises("IndexError")
              ELSE IF ~IsDigit(cp.s[3]) THEN Raises("ValueError")
              ELSE IF DigitValue(cp.s[3]) < 5 THEN Returns(Str(<<"2", "A">>))
              ELSE Returns(Str(<<"2", "B">>))
         ELSE Returns(Str(SubSeq(cp.s, 1, 2)))

----------------------------------------------------------------------------
(* normalize_steps, lines 273-338 *)

\* str.strip(): whitespace lexemes are dropped from both ends.
IsSpace(ch) == ch = " "
RECURSIVE LStrip(_)
LStrip(t) == IF t # <<>> /\ IsSpace(Head(t)) THEN LStrip(Tail(t)) ELSE t
RECURSIVE RStrip(_)
RStrip(t) ==
    IF t # <<>> /\ IsSpace(t[Len(t)]) THEN RStrip(SubSeq(t, 1, Len(t) - 1))
    ELSE t
Strip(t) == RStrip(LStrip(t))

\* str.replace(w, ""): every occurrence of the lexeme w is removed.
RECURSIVE Remove(_, _)
Remove(t, w) ==
    IF t = <<>> THEN <<>>
    ELSE IF Head(t) = w THEN Remove(Tail(t), w)
    ELSE <<Head(t)>> \o Remove(Tail(t), w)

\* clean_pipeline_name, lines 291-299.
clean_pipeline_name(p) ==
    IF IsNa(p) THEN Str(<<"Inconnu">>)
    ELSE Str(Strip(Remove(Remove(Remove(p.s, "Pipeline"), "Prospection"),
                          "Commercial")))

\* Lines 305-306: fillna("Inconnu") then STEP_GROUP_MAP.get(x, x).
step_group(raw) ==
    LET x == IF IsNa(raw) THEN Str(<<"Inconnu">>) ELSE raw
    IN  IF x.s \in DOMAIN STEP_GROUP_MAP THEN Str(STEP_GROUP_MAP[x.s]) ELSE x

\* Faulty variant: "Relance / Transfert" falls through to the fallback.
to_workflow_stage_fallthrough(sg) ==
    LET s == Strip(IF IsStr(sg) THEN sg.s ELSE <<>>)
    IN  IF s = <<"Piste">> THEN Str(<<"Piste">>)
        ELSE IF s = <<"Prise en charge lead">> THEN Str(<<"Prise en charge lead">>)
        ELSE IF s = <<"NRP">> THEN Str(<<"NRP / Premier contact">>)
        ELSE IF s = <<"Premier contact">> THEN Str(<<"NRP / Premier contact">>)
        ELSE IF s = <<"VISIO / RDV">> THEN Str(<<"VISIO / RDV">>)
        ELSE IF s = <<"Envoi de devis">> THEN Str(<<"Envoi de devis">>)
        ELSE IF s = <<"Refus">> THEN Str(<<"Refus / Devis signé">>)
        ELSE IF s = <<"Devis signé">> THEN Str(<<"Refus / Devis signé">>)
        ELSE Str(<<"Autre">>)

\* to_workflow_stage, lines 309-335.
to_workflow_stage(sg) ==
    LET s == Strip(IF IsStr(sg) THEN sg.s ELSE <<>>)   \* (step_group or "")
    IN  IF s = <<"Piste">> THEN Str(<<"Piste">>)
        ELSE IF s = <<"Prise en charge lead">> THEN Str(<<"Prise en charge lead">>)
        ELSE IF s = <<"NRP">> THEN Str(<<"NRP / Premier contact">>)
        ELSE IF s = <<"Premier contact">> THEN Str(<<"NRP / Premier contact">>)
        ELSE IF s = <<"VISIO / RDV">> THEN Str(<<"VISIO / RDV">>)
        ELSE IF s = <<"Envoi de devis">> THEN Str(<<"Envoi de devis">>)
        ELSE IF s = <<"Refus">> THEN Str(<<"Refus / Devis signé">>)
        ELSE IF s = <<"Devis signé">> THEN Str(<<"Refus / Devis signé">>)
        ELSE IF s = <<"Relance / Transfert">> THEN Str(<<"NRP / Premier contact">>)
        ELSE Str(<<"Autre">>)

\* pd.to_datetime(..., errors="coerce", utc=True), line 287, on the ISO-8601
\* texts the model uses: the instant in UTC; anything else is NaT.
NaT == [type |-> "NaTType", s |-> <<>>]
IsoInstants ==
    <<"2024-05-02T01:00:00+02:00">> :> [date |-> "2024-05-01", time |-> "23:00:00"]
    @@ <<"2024-05-02T10:00:00+02:00">> :> [date |-> "2024-05-02", time |-> "08:00:00"]
Timestamp(i) == [type |-> "Timestamp", s |-> <<>>, date |-> i.date, time |-> i.time]
to_datetime(v) ==
    IF IsStr(v) /\ v.s \in DOMAIN IsoInstants THEN Timestamp(IsoInstants[v.s])
    ELSE NaT
\* .dt.date, line 288
dt_date(v) ==
    IF v.type = "Timestamp" THEN [type |-> "date", s |-> <<>>, date |-> v.date]
    ELSE NaT

\* Lines 277-284: a column the frame lacks is added, holding None.
SecuredColumns == {"step.name", "pipeline.name", "status", "created"}
Secured(frame, row, c) == IF c \in frame.columns THEN Cell(row, c) ELSE None

DerivedColumns ==
    {"created_dt", "created_date", "pipeline_clean", "step_group", "workflow_stage"}

normalize_row(frame, row) ==
    [c \in frame.columns \cup SecuredColumns \cup DerivedColumns |->
        CASE c = "created_dt" -> to_datetime(Secured(frame, row, "created"))
          [] c = "created_date" ->
                 dt_date(to_datetime(Secured(frame, row, "created")))
          [] c = "pipeline_clean" ->
                 clean_pipeline_name(Secured(frame, row, "pipeline.name"))
          [] c = "step_group" -> step_group(Secured(frame, row, "step.name"))
          [] c = "workflow_stage" ->
                 to_workflow_stage(step_group(Secured(frame, row, "step.name")))
          [] OTHER -> Secured(frame, row, c)]

normalize_steps(frame) ==
    [columns |-> frame.columns \cup SecuredColumns \cup DerivedColumns,
     rows |-> [i \in 1..Len(frame.rows) |-> normalize_row(frame, frame.rows[i])]]

----------------------------------------------------------------------------
(* The script after the load, lines 347-357 *)

\* Line 347: df = normalize_steps(df_raw).
NormalizeSteps ==
    /\ pc = "loaded"
    /\ df' = <<normalize_steps(df_raw[1])>>
    /\ pc' = "normalized"
    /\ UNCHANGED <<geoVars, now, tokenVars, dataCache, token, offset, all_opps,
                   requests, pages, last, steady, df_raw, srvTotal, runs>>

\* Lines 352-353 for one row.
geo_row(row) ==
    LET cpv == extract_postal_code(Cell(row, "name"))
    IN  [c \in DOMAIN row \cup {"postal_code", "departement"} |->
            CASE c = "postal_code" -> cpv
              [] c = "departement" -> postal_to_departement(cpv).value
              [] OTHER -> row[c]]

geo_raises(frame) ==
    \/ "name" \notin frame.columns                               \* KeyError
    \/ \E i \in 1..Len(frame.rows) :
           postal_to_departement(
               extract_postal_code(Cell(frame.rows[i], "name"))).raised # ""

\* Lines 352-353: df["name"] is read; a frame without that column raises
\* KeyError and the script run ends.
Geography ==
    /\ pc = "normalized"
    /\ IF geo_raises(df[1])
         THEN /\ pc' = "failed"
              /\ UNCHANGED df
         ELSE /\ pc' = "geo"
              /\ df' = <<[columns |-> df[1].columns \cup {"postal_code", "departement"},
                          rows |-> [i \in 1..Len(df[1].rows) |->
                                       geo_row(df[1].rows[i])]]>>
    /\ UNCHANGED <<geoVars, now, tokenVars, dataCache, token, offset, all_opps,
                   requests, pages, last, steady, df_raw, srvTotal, runs>>

\* Line 357: the rows of the GLOBAL pipeline are dropped.
KeepsRow(row) == row["pipeline_clean"] # Str(<<"GLOBAL">>)
ExcludeGlobal ==
    /\ pc = "geo"
    /\ df' = <<[columns |-> df[1].columns,
                rows |-> SelectSeq(df[1].rows, KeepsRow)]>>
    /\ pc' = "ready"
    /\ UNCHANGED <<geoVars, now, tokenVars, dataCache, token, offset, all_opps,
                   requests, pages, last, steady, df_raw, srvTotal, runs>>

----------------------------------------------------------------------------
(* Calls of the two geography functions on their own *)

\* extract_postal_code(name_arg); its result is handed to
\* postal_to_departement as on lines 352-353.
ExtractPostalCode ==
    /\ name_arg # <<>>
    /\ cp_arg = <<>>
    /\ cp_arg' = <<extract_postal_code(name_arg[1])>>
    /\ UNCHANGED <<name_arg, cp_out, df, now, tokenVars, fetchVars>>

\* postal_to_departement(cp_arg).
PostalToDepartement ==
    /\ cp_arg # <<>>
    /\ cp_out = <<>>
    /\ cp_out' = <<postal_to_departement(cp_arg[1])>>
    /\ UNCHANGED <<name_arg, cp_arg, df, now, tokenVars, fetchVars>>

----------------------------------------------------------------------------
(* Inputs *)
Texts(alphabet, n) == UNION {[1..k -> alphabet] : k \in 0..n}

\* Lead names: every text over the alphabet, alone or followed by a second
\* postal code, written in ASCII digits or not.
NameAlphabet == {"0", "2", "9", "a", "_", " "}
NameTails ==
    {<<>>,
     <<" ", "9", "9", "0", "0", "0">>,
     <<" ", "U+0663", "U+0663", "U+0663", "U+0663", "U+0663">>}
NameHeads == Texts(NameAlphabet, MaxNameLen)

\* Arguments of postal_to_departement called on its own.
CpAlphabet == {"0", "2", "4", "5", "9", "A", "U+0663"}
CpInputs ==
    {Str(t) : t \in Texts(CpAlphabet, MaxCpLen)} \cup {None, NaN, PyInt(20)}

\* Raw step labels: the aliases, the canonical groups, the stage names and
\* labels the tables do not know, each with whitespace around it.
StepLabels ==
    DOMAIN STEP_GROUP_MAP \cup {STEP_GROUP_MAP[k] : k \in DOMAIN STEP_GROUP_MAP}
    \cup Range(WORKFLOW_ORDER)
    \cup {<<"NRP">>, <<"Inconnu">>, <<"Autre">>, <<"Gagné">>, <<"piste">>, <<>>}
Pads == Texts({" "}, MaxPad)
StepInputs == {Str(a \o l \o b) : a \in Pads, l \in StepLabels, b \in Pads}

\* Raw opportunities with any subset of the optional attributes.
OptionalKeys == {"name", "created", "status", "pipeline", "step"}
SampleValue(k) ==
    CASE k = "name" ->
            Str(<<"D", "u", "p", "o", "n", "t", " ", "7", "5", "0", "1", "3">>)
      [] k = "created" -> Str(<<"2024-05-02T01:00:00+02:00">>)
      [] k = "status" -> Str(<<"open">>)
      [] k = "pipeline" ->
            Dict([name |-> Str(<<"Pipeline", " ", "Jean", " ", "Commercial">>)])
      [] k = "step" -> Dict([name |-> Str(<<"Transfert Opp">>)])
      [] OTHER -> PyInt(0)
FullRecord == [k \in OptionalKeys \cup {"id"} |-> SampleValue(k)]
RawRecords ==
    {[k \in ks \cup {"id"} |-> SampleValue(k)] : ks \in SUBSET OptionalKeys}
    \cup {[FullRecord EXCEPT !["pipeline"] =
               Dict([name |-> Str(<<"Prospection", " ", "GLOBAL">>)])],
          [FullRecord EXCEPT !["created"] = Str(<<"hier">>)],
          [FullRecord EXCEPT !["step"] = Dict([name |-> None]),
                             !["name"] = None]}
\* The i-th record of a collection carries the identifier i.
Numbered(recs) == [i \in 1..Len(recs) |-> [recs[i] EXCEPT !["id"] = PyInt(i)]]
RawCollections ==
    {Numbered(recs) : recs \in UNION {[1..n -> RawRecords] : n \in 0..MaxRecords}}

----------------------------------------------------------------------------
(* Specifications *)
vars == <<now, tokenVars, fetchVars, df, geoVars>>

InitCommon ==
    /\ now = 0
    /\ tokenCache = {} /\ tokenLock = {}
    /\ cpc = [c \in Callers |-> "idle"]
    /\ cret = [c \in Callers |-> 0]
    /\ authCalls = 0
    /\ inflight = [c \in Callers |-> 0]
    /\ dataCache = {}
    /\ token = 0 /\ offset = 0 /\ all_opps = <<>>
    /\ requests = <<>> /\ pages = <<>> /\ last = NoPage /\ steady = TRUE
    /\ runs = 1
    /\ df = <<>>
    /\ cp_out = <<>>

\* A script run against a CRM holding srvTotal opportunities: lines 49-87
\* and 344-345, with reruns and passing time.
Init ==
    /\ InitCommon
    /\ pc = "start"
    /\ srvTotal \in Totals
    /\ df_raw = <<>>
    /\ name_arg = <<>> /\ cp_arg = <<>>

MainCacheRead == CacheRead(Main)
MainAcquireLock == AcquireLock(Main)
MainGetAccessToken == get_access_token(Main)
MainAuthResponse == \E kind \in AuthKinds : AuthResponse(Main, kind)
RunTick == Tick(DATA_TTL, (MaxRuns - 1) * DATA_TTL)

Next ==
    \/ LoadData
    \/ MainCacheRead
    \/ MainAcquireLock
    \/ MainGetAccessToken
    \/ MainAuthResponse
    \/ GotToken
    \/ TokenFailed
    \/ PageRequest
    \/ PageArrives
    \/ PageError
    \/ Rerun
    \/ RunTick

Spec == Init /\ [][Next]_vars

\* Every HTTP call has a timeout (30 s, 60 s) and the loop is synchronous:
\* a call in progress always takes its next step.
FairSpec ==
    /\ Spec
    /\ WF_vars(PageRequest)
    /\ WF_vars(PageArrives \/ PageError)

\* Callers of get_access_token on several threads, with passing time.
TokenInit ==
    /\ InitCommon
    /\ pc = "start"
    /\ srvTotal = 0
    /\ df_raw = <<>>
    /\ name_arg = <<>> /\ cp_arg = <<>>

CallerCall == \E c \in Callers : Call(c)
CallerCacheRead == \E c \in Callers : CacheRead(c)
CallerAcquireLock == \E c \in Callers : AcquireLock(c)
CallerGetAccessToken == \E c \in Callers : get_access_token(c)
CallerAuthResponse == \E c \in Callers, kind \in AuthKinds : AuthResponse(c, kind)
TokenTick ==
    \E d \in {TOKEN_TTL - 1, TOKEN_TTL} : Tick(d, MaxWindows * TOKEN_TTL)

TokenNext ==
    \/ CallerCall
    \/ CallerCacheRead
    \/ CallerAcquireLock
    \/ CallerGetAccessToken
    \/ CallerAuthResponse
    \/ TokenTick

TokenSpec == TokenInit /\ [][TokenNext]_vars

\* The script from line 347 on, started on a frame of raw records.
AssembleNext ==
    \/ NormalizeSteps
    \/ Geography
    \/ ExcludeGlobal

AssembleInit ==
    /\ InitCommon
    /\ pc = "loaded"
    /\ srvTotal = 0
    /\ df_raw \in {<<json_normalize(recs)>> : recs \in RawCollections}
    /\ name_arg = <<>> /\ cp_arg = <<>>

AssembleSpec == AssembleInit /\ [][AssembleNext]_vars

\* The same, on one record carrying a step label.
StageInit ==
    /\ InitCommon
    /\ pc = "loaded"
    /\ srvTotal = 0
    /\ df_raw \in {<<json_normalize(<<[FullRecord EXCEPT !["step"] = st]>>)>> :
                     st \in {Dict([name |-> x]) : x \in StepInputs \cup {None}}}
    /\ name_arg = <<>> /\ cp_arg = <<>>

StageSpec == StageInit /\ [][AssembleNext]_vars

\* extract_postal_code then postal_to_departement on one lead name.
GeoInit ==
    /\ InitCommon
    /\ pc = "start"
    /\ srvTotal = 0
    /\ df_raw = <<>>
    /\ \/ \E h \in NameHeads, tl \in NameTails : name_arg = <<Str(h \o tl)>>
       \/ name_arg \in {<<None>>, <<NaN>>}
    /\ cp_arg = <<>>

GeoNext ==
    \/ ExtractPostalCode
    \/ PostalToDepartement

GeoSpec == GeoInit /\ [][GeoNext]_vars

\* postal_to_departement on an argument of any shape.
PostalInit ==
    /\ InitCommon
    /\ pc = "start"
    /\ srvTotal = 0
    /\ df_raw = <<>>
    /\ name_arg = <<>>
    /\ cp_arg \in {<<v>> : v \in CpInputs}

PostalNext == PostalToDepartement

PostalSpec == PostalInit /\ [][PostalNext]_vars

----------------------------------------------------------------------------
(* Properties of the paging, checked under Spec and FairSpec *)

\* The body of fetch_all_opportunities ran to its return in this script run.
FetchCompleted == pc = "loaded" /\ pages # <<>>

\* The CRM served pages of at most `limit` records, always reporting the
\* same total, and their counts add up to that total.
WellServed ==
    /\ steady
    /\ \A i \in 1..Len(pages) : pages[i] <= limit
    /\ Sum(pages, Len(pages)) = last.total

\* Every page but the last held `limit` records.
FullPages == \A i \in 1..(Len(pages) - 1) : pages[i] = limit

\* Each list request carried the sum of the counts received before it.
OffsetsAdvance ==
    /\ Len(requests) \in {Len(pages), Len(pages) + 1}
    /\ \A i \in 1..Len(requests) : requests[i] = Sum(pages, i - 1)

LastPageEnds == last.count = 0 \/ last.offset >= last.total
InLoop == pc \in {"page_request", "page_wait"}

\* C2: the call stops at the first page after which count = 0 or the running
\* offset has reached total, and only there: no list request follows such a
\* page, a page with count = 0 before total or a total below what was
\* retrieved ends the call with its result, the number of requests is
\* bounded by the largest total reported, and a call in its loop always
\* comes to an end.
C2_StopsAtFirstEnd ==
    /\ [](pages # <<>> => (LastPageEnds <=> pc = "loaded"))
    /\ [](Len(requests) <= srvTotal + 1)
    /\ [][Len(requests') > Len(requests) => (pages = <<>> \/ ~LastPageEnds)]_vars
    /\ (InLoop ~> (pc \in {"loaded", "failed"}))

\* An empty page arrived before total was reached and the call returned.
C2_Witness ==
    /\ FetchCompleted
    /\ Len(pages) >= 2
    /\ last.count = 0
    /\ last.offset < last.total

\* C3: a script run that failed (a non-success status for the token or for
\* any page) holds no dataset, neither the records accumulated so far nor an
\* earlier cached frame; nothing was stored for it in the cache and the
\* failed request was issued once; a dataset that is assigned comes from a
\* call that ran to its exit test.
C3_AllOrNothing ==
    /\ pc = "failed" =>
        /\ df_raw = <<>> /\ df = <<>>
        /\ all_opps = <<>>
        /\ \A e \in dataCache : e.expires <= now
        /\ requests # <<>> => Len(requests) = Len(pages) + 1
    /\ (pc = "loaded" /\ pages # <<>>) =>
        /\ LastPageEnds
        /\ NumRecords(df_raw[1].rows) = Sum(pages, Len(pages))
        /\ dataCache = {[value |-> df_raw[1], expires |-> now + DATA_TTL]}
           \/ \E e \in dataCache : e.value = df_raw[1] /\ e.expires <= now + DATA_TTL

\* A run failed on its third page while an earlier frame sits expired in
\* the cache.
C3_Witness ==
    /\ pc = "failed"
    /\ Len(pages) = 2
    /\ dataCache # {}

----------------------------------------------------------------------------
(* Properties of the token cache, checked under TokenSpec *)

\* A token acquired less than 3500 s ago is in the store.
TokenInWindow == \E e \in tokenCache : now < e.expires
WindowToken == (CHOOSE e \in tokenCache : now < e.expires).value
ReturnsNow(c) == cpc[c] # "returned" /\ cpc'[c] = "returned"

\* C4: while a token acquired less than 3500 s ago is held, calls of
\* get_access_token issue no auth request and return that token; once the
\* 3500 s have elapsed a call returns only the token of an auth request of
\* its own, and it issues one such request, never more.
C4_TokenReuse ==
    /\ [](\A e \in tokenCache : e.expires <= now + TOKEN_TTL)
    /\ [][/\ authCalls' \in {authCalls, authCalls + 1}
          /\ authCalls' # authCalls => ~TokenInWindow
          /\ \A c \in Callers : ReturnsNow(c) =>
                IF TokenInWindow
                  THEN cret'[c] = WindowToken /\ authCalls' = authCalls
                  ELSE /\ cpc[c] = "request"
                       /\ inflight[c] # 0
                       /\ cret'[c] \in {inflight[c], 0}]_vars

\* One caller still holds the first token, acquired at time 0; another
\* called when the 3500 s had just elapsed and got the second.
C4_Witness ==
    /\ authCalls = 2
    /\ now = TOKEN_TTL
    /\ tokenCache = {[value |-> 2, expires |-> 2 * TOKEN_TTL]}
    /\ \E c1, c2 \in Callers :
          /\ cpc[c1] = "returned" /\ cret[c1] = 1
          /\ cpc[c2] = "returned" /\ cret[c2] = 2

----------------------------------------------------------------------------
(* Properties of the assembly, checked under AssembleSpec and StageSpec *)

\* C6 as stated: normalization plus geo-resolution of N raw records, with
\* any subset of the optional attributes absent, never fails and yields
\* exactly N records before the GLOBAL filter.
C6_AsStated ==
    /\ pc # "failed"
    /\ pc = "geo" => Len(df[1].rows) = Len(df_raw[1].rows)

\* The stage each recognised step group is folded into.
StageOf ==
    <<"Piste">> :> <<"Piste">>
    @@ <<"Prise en charge lead">> :> <<"Prise en charge lead">>
    @@ <<"NRP">> :> <<"NRP / Premier contact">>
    @@ <<"Premier contact">> :> <<"NRP / Premier contact">>
    @@ <<"VISIO / RDV">> :> <<"VISIO / RDV">>
    @@ <<"Envoi de devis">> :> <<"Envoi de devis">>
    @@ <<"Refus">> :> <<"Refus / Devis signé">>
    @@ <<"Devis signé">> :> <<"Refus / Devis signé">>
    @@ <<"Relance / Transfert">> :> <<"NRP / Premier contact">>
Trimmed(t) ==
    IF \A i \in 1..Len(t) : t[i] = " " THEN <<>>
    ELSE LET a == CHOOSE i \in 1..Len(t) :
                      t[i] # " " /\ \A j \in 1..(i - 1) : t[j] = " "
             b == CHOOSE i \in 1..Len(t) :
                      t[i] # " " /\ \A j \in (i + 1)..Len(t) : t[j] = " "
         IN  SubSeq(t, a, b)
Normalized == pc \in {"normalized", "geo", "ready"}

\* C10: for every string step group, the empty one and everything the alias
\* table can give included, to_workflow_stage returns one of the six ordered
\* stages or "Autre", never failing: NRP and Premier contact give
\* "NRP / Premier contact", Refus and Devis signé give "Refus / Devis signé",
\* Relance / Transfert gives "NRP / Premier contact", the four other stage
\* names give themselves, and every other value gives "Autre"; the step
\* group is read with the whitespace around it trimmed.
C10_StageTotal ==
    Normalized =>
        \A i \in 1..Len(df[1].rows) :
            LET sg == df[1].rows[i]["step_group"]
                ws == df[1].rows[i]["workflow_stage"]
            IN  /\ IsStr(sg) /\ IsStr(ws)
                /\ ws.s \in Range(WORKFLOW_ORDER) \cup {<<"Autre">>}
                /\ ws.s = IF Trimmed(sg.s) \in DOMAIN StageOf
                            THEN StageOf[Trimmed(sg.s)]
                            ELSE <<"Autre">>

\* The alias "Transfert Opp" became the step group "Relance / Transfert",
\* placed in the stage "NRP / Premier contact".
C10_Witness ==
    /\ pc = "normalized"
    /\ Len(df[1].rows) = 1
    /\ df[1].rows[1]["step.name"] = Str(<<"Transfert Opp">>)
    /\ df[1].rows[1]["step_group"] = Str(<<"Relance / Transfert">>)
    /\ df[1].rows[1]["workflow_stage"] = Str(<<"NRP / Premier contact">>)

----------------------------------------------------------------------------
(* Properties of the geography, checked under GeoSpec and PostalSpec *)

Resolved == name_arg # <<>> /\ cp_arg # <<>> /\ cp_out # <<>>

\* C7 as stated: the department code derived from a lead name is null or a
\* key of DEPT_NAME_MAP.
C7_AsStated ==
    Resolved =>
        \/ cp_out[1].value = None
        \/ IsStr(cp_out[1].value) /\ cp_out[1].value.s \in DOMAIN DEPT_NAME_MAP

\* The number two ASCII digits write, 0 for anything else.
TwoDigits(a, b) ==
    IF a \in AsciiDigits /\ b \in AsciiDigits
      THEN 10 * DigitValue(a) + DigitValue(b)
      ELSE 0

\* C7 amended: the department code is null exactly when the name holds no
\* postal code; otherwise it is "2A" or "2B" for a code starting with "20"
\* (third digit below 5 or not) and the first two characters of the code in
\* every other case; it is a key of DEPT_NAME_MAP exactly when those two
\* characters are ASCII digits writing a number from 01 to 95.
C7_DepartementOfName ==
    Resolved =>
        LET cp == cp_arg[1]
            d == cp_out[1]
        IN  /\ d.raised = ""
            /\ d.value = None <=> cp = None
            /\ cp # None =>
                /\ IsStr(d.value)
                /\ d.value.s =
                      IF SubSeq(cp.s, 1, 2) = <<"2", "0">>
                        THEN IF DigitValue(cp.s[3]) < 5 THEN <<"2", "A">>
                                                         ELSE <<"2", "B">>
                        ELSE SubSeq(cp.s, 1, 2)
                /\ d.value.s \in DOMAIN DEPT_NAME_MAP
                      <=> TwoDigits(cp.s[1], cp.s[2]) \in 1..95

\* A name whose postal code starts with "20" resolved to Corse-du-Sud.
C7_Witness ==
    /\ Resolved
    /\ IsStr(cp_arg[1])
    /\ SubSeq(cp_arg[1].s, 1, 3) = <<"2", "0", "0">>
    /\ cp_out[1].value = Str(<<"2", "A">>)

Extracted == name_arg # <<>> /\ cp_arg # <<>>

\* The first run of exactly five digits of t, each side of it a character
\* for which Inner is false or an edge of the text; None if there is none.
FirstRun(t, Inner(_)) ==
    LET At(i) ==
            /\ i + 4 <= Len(t)
            /\ \A j \in i..(i + 4) : IsDigit(t[j])
            /\ i = 1 \/ ~Inner(t[i - 1])
            /\ i + 4 = Len(t) \/ ~Inner(t[i + 5])
        found == {i \in 1..Len(t) : At(i)}
    IN  IF found = {} THEN None
        ELSE LET i == CHOOSE i \in found : \A j \in found : i <= j
             IN  Str(SubSeq(t, i, i + 4))

\* C8 as stated: extract_postal_code returns the first run of exactly five
\* digits bounded on each side by a non-digit (a letter and an underscore
\* included) or a text edge, and null when there is none or the input is not
\* a text.
C8_AsStated ==
    Extracted =>
        cp_arg[1] = IF IsStr(name_arg[1]) THEN FirstRun(name_arg[1].s, IsDigit)
                                          ELSE None

\* C8 amended: extract_postal_code returns the first run of exactly five
\* digits bounded on each side by a text edge or by a character that is
\* neither a digit, a letter nor an underscore, and null when there is none
\* or the input is not a text.
C8_StandaloneRun ==
    Extracted =>
        cp_arg[1] = IF IsStr(name_arg[1]) THEN FirstRun(name_arg[1].s, IsWord)
                                          ELSE None

\* Five digits glued to a letter are passed over and the standalone run
\* after them is returned.
C8_Witness ==
    /\ Extracted
    /\ name_arg[1] =
          Str(<<"a", "2", "0", "0", "0", "0", " ", "9", "9", "0", "0", "0">>)
    /\ cp_arg[1] = Str(<<"9", "9", "0", "0", "0">>)

====
